---- MODULE Spec2Model ----
(***************************************************************************)
(* Pipeline orchestration and run-history subsystem of the weather data    *)
(* pipeline: PipelineOrchestrator (src/src/pipeline/orchestrator.py),      *)
(* PipelineScheduler (src/src/pipeline/scheduler.py), the monitor          *)
(* (src/src/pipeline/monitor.py) and the clean-up script                   *)
(* (src/clean_corrupted_logs.py).                                          *)
(*                                                                         *)
(* The history store is the directory logs/pipeline_runs: one file per     *)
(* run id (active set) and the sub-directory corrupted/ (holding area).    *)
(* A run id is the wall clock at second resolution, so a key of the store  *)
(* is modelled by the clock value it was derived from; the zero-padded     *)
(* fixed-width format makes the lexicographic order of the file names the  *)
(* numeric order of these values.                                          *)
(***************************************************************************)
EXTENDS Integers, Sequences, FiniteSets, TLC

\* ---------------------------------------------------------------- bounds
\* seconds of wall clock explored (run ids are 1..MaxClock)
MaxClock == 2
\* run_pipeline invocations explored
MaxRuns == 2
\* largest limit passed to the history readers
MaxLimit == 2
\* most rows of the frame handed to load_weather_facts
MaxRows == 2
\* city ids explored, and most rows of the frame handed to upsert_city_dimension
MaxCities == 2

\* ------------------------------------------------------------ data model
Keys == 1..MaxClock

StageOrder == <<"extraction", "transformation", "loading", "analytics">>

PipelineLength == Len(StageOrder)

\* messages an exception raised by a collaborator may carry (str(e))
ErrMsgs == {"boom", ""}

\* message of an exception raised by loader.close() in run_loading's finally
CloseErr == "close failed"

\* message of an exception raised while finalizing (convert / os.makedirs)
FinalizeErr == "finalize failed"

\* insertion order of the keys of run_stats, hence of the dumped JSON object
KeyOrder == <<"run_id", "start_time", "status", "stages", "end_time", "duration_seconds", "error">>

\* A dict is a record of its keys' values plus the set `has` of the keys that
\* are present; an absent key holds its default value. The timestamps
\* start_time, end_time and the float duration_seconds are opaque to the
\* orchestrator and to the readers (written, copied and compared, never
\* computed with after line 95): they are modelled by their presence in `has`.
EmptyStats == [has |-> {}, run_id |-> 0, status |-> "", stages |-> <<>>, error |-> ""]

NoExc == [kind |-> "none", msg |-> ""]

NoResult == [set |-> FALSE, status |-> "", run_id |-> 0, has_error |-> FALSE,
             error |-> "", stats |-> EmptyStats]

\* position of a stage name in a stages mapping (0 when absent)
StageIndex(stages, name) ==
    IF \E i \in 1..Len(stages) : stages[i].name = name
    THEN CHOOSE i \in 1..Len(stages) : stages[i].name = name
    ELSE 0

\* run_stats['stages'][name] = entry: a dict assignment keeps the position of a
\* key that is already present and appends a new key
SetStage(stages, entry) ==
    LET i == StageIndex(stages, entry.name)
    IN IF i = 0 THEN Append(stages, entry) ELSE [stages EXCEPT ![i] = entry]

SuccessEntry(name) == [name |-> name, status |-> "success", error |-> ""]

FailedEntry(name, msg) == [name |-> name, status |-> "failed", error |-> msg]

\* generate_run_id: the clock at second resolution
generate_run_id(now) == now

\* log_pipeline_start: a fresh run_stats dict
log_pipeline_start(rid) ==
    [EmptyStats EXCEPT !.has = {"run_id", "start_time", "status", "stages"},
                       !.run_id = rid, !.status = "running"]

\* `if error:` of log_pipeline_end: None and the empty string are falsy
Truthy(has_error, error) == has_error /\ error # ""

\* log_pipeline_end, the part before the write: end_time, status, duration, error
FinalizeStats(stats, status, has_error, error) ==
    LET base == [stats EXCEPT !.has = @ \cup {"end_time", "duration_seconds"},
                              !.status = status]
    IN IF Truthy(has_error, error)
       THEN [base EXCEPT !.has = @ \cup {"error"}, !.error = error]
       ELSE base

\* -------------------------------------------------------------- the store
\* A unit of the store: kind "none" (no such file), "file" (a regular file whose
\* text is the first keys of `rec`, closed by the final brace when `closed`), or
\* "unreadable" (an entry that open() cannot read, e.g. a directory x.json).
NoFile == [kind |-> "none", closed |-> FALSE, rec |-> EmptyStats]

EmptyFile == [kind |-> "file", closed |-> FALSE, rec |-> EmptyStats]

UnreadableUnit == [kind |-> "unreadable", closed |-> FALSE, rec |-> EmptyStats]

\* the keys of a dict among the first n keys of KeyOrder that it has
FirstKeys(stats, n) ==
    {KeyOrder[i] : i \in {j \in 1..Len(KeyOrder) : KeyOrder[j] \in stats.has /\
         Cardinality({m \in 1..j : KeyOrder[m] \in stats.has}) <= n}}

\* a dict cut down to the keys in ks
Restrict(stats, ks) ==
    [has |-> stats.has \cap ks,
     run_id |-> IF "run_id" \in ks THEN stats.run_id ELSE 0,
     status |-> IF "status" \in ks THEN stats.status ELSE "",
     stages |-> IF "stages" \in ks THEN stats.stages ELSE <<>>,
     error |-> IF "error" \in ks THEN stats.error ELSE ""]

\* a conversion that rebuilds the stages mapping with its keys in alphabetical
\* order
SortsKeys(stats) ==
    LET IsAnalytics(e) == e.name = "analytics"
        IsExtraction(e) == e.name = "extraction"
        IsLoading(e) == e.name = "loading"
        IsTransformation(e) == e.name = "transformation"
    IN [stats EXCEPT !.stages = SelectSeq(@, IsAnalytics) \o SelectSeq(@, IsExtraction)
                                  \o SelectSeq(@, IsLoading) \o SelectSeq(@, IsTransformation)]

\* a conversion that loses the error key
DropsErrorKey(stats) == Restrict(stats, stats.has \ {"error"})

\* convert_to_json_serializable on a leaf: the strings of a record have neither
\* an item nor an isoformat attribute and are returned as they are
ConvertLeaf(v) == v

\* convert_to_json_serializable: a dict is rebuilt key by key, in the same
\* order, from its converted values
convert_to_json_serializable(stats) ==
    [has |-> stats.has,
     run_id |-> ConvertLeaf(stats.run_id),
     status |-> ConvertLeaf(stats.status),
     stages |-> [i \in 1..Len(stats.stages) |->
                    [name |-> stats.stages[i].name,
                     status |-> ConvertLeaf(stats.stages[i].status),
                     error |-> ConvertLeaf(stats.stages[i].error)]],
     error |-> ConvertLeaf(stats.error)]

\* json.dump that stops after n keys (n = Cardinality(stats.has) + 1: complete)
DumpPrefix(stats, n) ==
    IF n > Cardinality(stats.has)
    THEN [kind |-> "file", closed |-> TRUE, rec |-> Restrict(stats, stats.has)]
    ELSE [kind |-> "file", closed |-> FALSE, rec |-> Restrict(stats, FirstKeys(stats, n))]

\* json.dump(json_safe_stats, f): the complete text
JsonDump(stats) == DumpPrefix(stats, Cardinality(stats.has) + 1)

\* points at which a failing json.dump may stop: nothing written, or three keys
DumpFailPoints == {0, 3}

\* open(path) + json.load: "ok" with the dict, "decode" (json.JSONDecodeError)
\* or "oserror" (any other exception)
JsonLoad(unit) ==
    IF unit.kind = "file" /\ unit.closed THEN [outcome |-> "ok", data |-> unit.rec]
    ELSE IF unit.kind = "file" THEN [outcome |-> "decode", data |-> EmptyStats]
    ELSE [outcome |-> "oserror", data |-> EmptyStats]

\* stats_file of log_pipeline_end: the key of the run's unit
StatsFile(rid) == rid

VARIABLES
    clock,            \* wall clock, seconds
    active,           \* logs/pipeline_runs/*.json
    holding,          \* logs/pipeline_runs/corrupted/*.json
    fd,               \* where the file the orchestrator holds open lives: "closed", "active", "holding"
    opc,              \* position of the orchestrator in run_pipeline
    run_id,           \* self.run_id
    run_stats,        \* self.run_stats
    exc,              \* the exception in flight (caught by run_pipeline's handler, or leaving it)
    result,           \* the value run_pipeline returned
    wlog,             \* history of the latest run: caller, how it ended, open attempts, completed dumps
    runs,             \* run_pipeline invocations so far
    inflight,         \* run_pipeline invocations in progress
    caller,           \* who called run_pipeline: "none", "once", "sched"
    spc,              \* position of the scheduler
    last_sched,       \* clock at which the job's next run was last computed
    mpc,              \* position of the monitor / clean-up script: "idle", "prompt", "answered"
    tool,             \* the tool that runs or ran last: "status" (display_pipeline_status), "script" (clean_corrupted_logs)
    corrupted_files,  \* the corrupted_files list of that tool
    response,         \* what input() returned to it, a sequence of characters
    last_read,        \* what a get_pipeline_history(limit) call just returned to its caller
    cleaned,          \* the clean_corrupted_files(files) calls a caller just made: the list, how often in a row
    history,          \* the list `history` a display function of the monitor works on
    report,           \* the figures that display function printed
    raw_files,        \* data/raw: per file name, the run that wrote the file (0: no such file)
    raw_filepath,     \* run_pipeline's local raw_filepath (0: None)
    raw_read,         \* the run that wrote the raw file this run's transformation read (0: none read)
    csv_files,        \* data/processed: per file name, the run that wrote the file (0: no such file)
    csv_filepath,     \* run_pipeline's local csv_filepath (0: None)
    csv_read,         \* the run that wrote the CSV this run's loading read (0: none read)
    stats_obj,        \* which dict object self.run_stats is bound to
    earlier,          \* a result['stats'] a caller of run_pipeline kept: the dict object and its contents
    orch_read,        \* what PipelineOrchestrator.get_pipeline_history(limit) just returned
    city_dimension,   \* table city_dimension: per city_id the row, or no row
    frame,            \* the data frame handed to upsert_city_dimension
    upsert_log,       \* the upsert_city_dimension calls made on that frame and the table after the first
    facts             \* load_weather_facts of the run: rows of its frame, rows appended, value returned

ovars == <<opc, run_id, run_stats, exc, result, wlog>>

store == <<active, holding, fd>>

svars == <<spc, last_sched>>

mvars == <<mpc, tool, corrupted_files, response, last_read, cleaned>>

\* what the display functions compute
rvars == <<history, report>>

\* the files the stages hand to each other
dvars == <<raw_files, raw_filepath, raw_read, csv_files, csv_filepath, csv_read>>

\* the identity of the run_stats dict and who else holds it
avars == <<stats_obj, earlier>>

\* the orchestrator's history reader and the loader's tables
xvars == <<orch_read, city_dimension, frame, upsert_log, facts>>

\* what is known of the latest run_pipeline call: who made it, how it ended
\* ("" while in flight), how often it tried to open its unit and how often a
\* dump ran to completion
NoWrites == [by |-> "none", ended |-> "", attempts |-> 0, completed |-> 0]

InRun == {"entered", "extraction", "transformation", "loading", "loading_post",
          "analytics", "end_s", "end_f", "open", "dump", "logged"}

\* ------------------------------------------------- the run_stats object
\* A dict object is named by the statement that created it and the number of
\* run_pipeline calls made so far; no orchestrator exists yet
NoDict == [site |-> "none", call |-> 0]

\* PipelineOrchestrator.__init__: `self.run_stats = {}`
ConstructedDict(n) == [site |-> "__init__", call |-> n]

\* a log_pipeline_start that clears and refills the dict it already has
RefillsDict(obj, n) == obj

\* log_pipeline_start: `self.run_stats = {...}` binds a new dict
BindsNewDict(obj, n) == [site |-> "log_pipeline_start", call |-> n]

\* nobody kept a result
NothingKept == [obj |-> NoDict, stats |-> EmptyStats]

\* a write through self.run_stats, bound to obj, is seen by whoever holds obj
Aliased(kept, obj, stats) == IF kept.obj = obj THEN [kept EXCEPT !.stats = stats] ELSE kept

\* -------------------------------------------------------- loader's tables
\* no row under a city_id
NoRow == [present |-> FALSE, city_name |-> "", timezone_offset_sec |-> ""]

\* load_weather_facts has not run
NoFacts == [called |-> FALSE, rows |-> 0, failed |-> FALSE, appended |-> 0, records_loaded |-> 0]

\* upsert_city_dimension has not run
NoUpserts == [calls |-> 0, raised |-> FALSE, before |-> <<>>, first |-> <<>>]

\* ---------------------------------------------------------- orchestrator
\* run_pipeline is entered (by run_pipeline_once or by the scheduler)
EnterRunPipeline(by) ==
    /\ opc' = "entered"
    /\ runs' = runs + 1
    /\ inflight' = inflight + 1
    /\ exc' = NoExc
    /\ result' = NoResult
    /\ wlog' = [NoWrites EXCEPT !.by = by]
    /\ caller' = by

\* run_pipeline, lines 322-323: generate_run_id, log_pipeline_start
BeginRun ==
    /\ opc = "entered"
    /\ run_id' = generate_run_id(clock)
    /\ run_stats' = log_pipeline_start(generate_run_id(clock))
    /\ opc' = "extraction"
    /\ UNCHANGED <<exc, result, wlog, runs, inflight, caller, clock, store, svars, mvars, rvars, dvars, xvars>>
    /\ stats_obj' = BindsNewDict(stats_obj, runs)
    /\ earlier' = Aliased(earlier, stats_obj', run_stats')

\* a run_pipeline that calls run_loading right after run_extraction
SkipsTransformation(name) ==
    CASE name = "extraction" -> "loading"
      [] name = "transformation" -> "loading"
      [] name = "loading" -> "loading_post"
      [] OTHER -> "end_s"

\* where run_pipeline goes after a stage method returned
AfterStage(name) ==
    CASE name = "extraction" -> "transformation"
      [] name = "transformation" -> "loading"
      [] name = "loading" -> "loading_post"
      [] OTHER -> "end_s"

\* run_extraction / run_transformation / run_loading / run_analytics: the try
\* body reaches the `self.run_stats['stages'][stage_name] = {... 'success' ...}`
StageSucceeds(name) ==
    /\ opc = name
    /\ run_stats' = [run_stats EXCEPT !.stages = SetStage(@, SuccessEntry(name))]
    /\ opc' = AfterStage(name)
    /\ UNCHANGED <<run_id, exc, result, wlog, runs, inflight, caller, clock, store, svars, mvars, rvars, dvars, xvars>>
    /\ stats_obj' = stats_obj
    /\ earlier' = Aliased(earlier, stats_obj, run_stats')

\* a stage method whose except branch does not re-raise: run_pipeline goes on
ContinuesAfterError(name) == AfterStage(name)

\* where control goes from the except branch of a stage method: its `raise`
\* reaches the handler of run_pipeline (line 347), so no later stage is called
OnStageError(name) == "end_f"

\* the exception that leaves a stage method whose body raised msg: run_loading's
\* finally calls loader.close(), whose own exception replaces the one in flight
Leaving(name, msg, close_raises) ==
    IF name = "loading" /\ close_raises
    THEN [kind |-> "Exception", msg |-> CloseErr]
    ELSE [kind |-> "Exception", msg |-> msg]

\* the except branch of a stage method: the entry becomes 'failed' and the
\* exception is re-raised into run_pipeline's handler
StageFails(name, msg, close_raises) ==
    /\ opc = name
    /\ close_raises => name = "loading"
    /\ run_stats' = [run_stats EXCEPT !.stages = SetStage(@, FailedEntry(name, msg))]
    /\ exc' = Leaving(name, msg, close_raises)
    /\ opc' = OnStageError(name)
    /\ UNCHANGED <<run_id, result, wlog, runs, inflight, caller, clock, store, svars, mvars, rvars, dvars, xvars>>
    /\ stats_obj' = stats_obj
    /\ earlier' = Aliased(earlier, stats_obj, run_stats')

\* run_loading after its success entry: get_load_statistics and the finally
\* block both succeed
LoadingReturns ==
    /\ opc = "loading_post"
    /\ opc' = "analytics"
    /\ UNCHANGED <<run_id, run_stats, exc, result, wlog, runs, inflight, caller, clock, store, svars, mvars, rvars, dvars, avars, xvars>>

\* run_loading after its success entry: get_load_statistics raises, the except
\* branch overwrites the entry
LoadingStatsFail(msg, close_raises) ==
    /\ opc = "loading_post"
    /\ run_stats' = [run_stats EXCEPT !.stages = SetStage(@, FailedEntry("loading", msg))]
    /\ exc' = Leaving("loading", msg, close_raises)
    /\ opc' = OnStageError("loading")
    /\ UNCHANGED <<run_id, result, wlog, runs, inflight, caller, clock, store, svars, mvars, rvars, dvars, xvars>>
    /\ stats_obj' = stats_obj
    /\ earlier' = Aliased(earlier, stats_obj, run_stats')

\* run_loading after its success entry: only loader.close() in finally raises
LoadingCloseFails ==
    /\ opc = "loading_post"
    /\ exc' = [kind |-> "Exception", msg |-> CloseErr]
    /\ opc' = "end_f"
    /\ UNCHANGED <<run_id, run_stats, result, wlog, runs, inflight, caller, clock, store, svars, mvars, rvars, dvars, avars, xvars>>

\* log_pipeline_end(status='success'), lines 90-104; an exception raised by the
\* conversion or by os.makedirs is caught by run_pipeline's handler
LogEndSuccess(raises) ==
    /\ opc = "end_s"
    /\ run_stats' = FinalizeStats(run_stats, "success", FALSE, "")
    /\ IF raises
       THEN /\ exc' = [kind |-> "Exception", msg |-> FinalizeErr]
            /\ opc' = "end_f"
       ELSE /\ exc' = exc
            /\ opc' = "open"
    /\ UNCHANGED <<run_id, result, wlog, runs, inflight, caller, clock, store, svars, mvars, rvars, dvars, xvars>>
    /\ stats_obj' = stats_obj
    /\ earlier' = Aliased(earlier, stats_obj, run_stats')

\* the handler of run_pipeline: log_pipeline_end(status='failed', error=str(e)),
\* lines 90-104; an exception raised here leaves run_pipeline
LogEndFailed(raises) ==
    /\ opc = "end_f"
    /\ run_stats' = FinalizeStats(run_stats, "failed", TRUE, exc.msg)
    /\ IF raises
       THEN /\ exc' = [kind |-> "Exception", msg |-> FinalizeErr]
            /\ opc' = "raised"
       ELSE /\ exc' = exc
            /\ opc' = "open"
    /\ UNCHANGED <<run_id, result, wlog, runs, inflight, caller, clock, store, svars, mvars, rvars, dvars, xvars>>
    /\ stats_obj' = stats_obj
    /\ earlier' = Aliased(earlier, stats_obj, run_stats')

\* a log_pipeline_end whose write is not inside try/except: the error leaves
\* log_pipeline_end and, raised from the handler, run_pipeline
WriteErrorEscapes == "raised"

\* where control goes when open() or json.dump raises: `except Exception` at
\* line 110 logs the error and log_pipeline_end goes on to its last lines
OnWriteError == "logged"

\* open(stats_file, 'w'): creates or truncates the unit, or raises (caught at
\* line 110); an unreadable entry cannot be opened
OpenStatsFile(fails) ==
    /\ opc = "open"
    /\ active[StatsFile(run_id)].kind = "unreadable" => fails
    /\ wlog' = [wlog EXCEPT !.attempts = @ + 1]
    /\ IF fails
       THEN /\ opc' = OnWriteError
            /\ UNCHANGED store
       ELSE /\ opc' = "dump"
            /\ active' = [active EXCEPT ![StatsFile(run_id)] = EmptyFile]
            /\ fd' = "active"
            /\ UNCHANGED holding
    /\ UNCHANGED <<run_id, run_stats, exc, result, runs, inflight, caller, clock, svars, mvars, rvars, dvars, avars, xvars>>

\* the text a dump leaves in the file: complete, or cut at point p
Dumped(stats, complete, p) ==
    IF complete THEN JsonDump(convert_to_json_serializable(stats))
    ELSE DumpPrefix(convert_to_json_serializable(stats), p)

\* json.dump(json_safe_stats, f) into the open file, wherever it lives now;
\* an exception midway is caught at line 110 and leaves the text written so far
DumpStats(complete, p) ==
    /\ opc = "dump"
    /\ IF fd = "active"
       THEN /\ active' = [active EXCEPT ![StatsFile(run_id)] = Dumped(run_stats, complete, p)]
            /\ UNCHANGED holding
       ELSE /\ holding' = [holding EXCEPT ![StatsFile(run_id)] = Dumped(run_stats, complete, p)]
            /\ UNCHANGED active
    /\ fd' = "closed"
    /\ wlog' = [wlog EXCEPT !.completed = IF complete THEN @ + 1 ELSE @]
    /\ opc' = IF complete THEN "logged" ELSE OnWriteError
    /\ UNCHANGED <<run_id, run_stats, exc, result, runs, inflight, caller, clock, svars, mvars, rvars, dvars, avars, xvars>>

\* the dict run_pipeline returns (lines 341-345 and 354-359)
ReturnValue(stats, rid, e) ==
    [set |-> TRUE, status |-> stats.status, run_id |-> rid,
     has_error |-> stats.status = "failed", error |-> e.msg, stats |-> stats]

\* log_pipeline_end returns and run_pipeline returns its result
ReturnResult ==
    /\ opc = "logged"
    /\ result' = ReturnValue(run_stats, run_id, exc)
    /\ exc' = NoExc
    /\ opc' = "returned"
    /\ UNCHANGED <<run_id, run_stats, wlog, runs, inflight, caller, clock, store, svars, mvars, rvars, dvars, avars, xvars>>

\* KeyboardInterrupt delivered while run_pipeline is in flight: not an
\* Exception, so no handler of the orchestrator catches it; a with block
\* closes the open file on the way out
Interrupt ==
    /\ opc \in InRun
    /\ exc' = [kind |-> "KeyboardInterrupt", msg |-> ""]
    /\ opc' = "raised"
    /\ fd' = "closed"
    /\ UNCHANGED <<run_id, run_stats, result, wlog, runs, inflight, caller, clock, active, holding, svars, mvars, rvars, dvars, avars, xvars>>

\* ------------------------------------------------------ run_pipeline_once
\* run_pipeline_once: a new PipelineOrchestrator, then run_pipeline
RunPipelineOnce ==
    /\ spc = "off"
    /\ opc = "idle"
    /\ runs < MaxRuns
    /\ EnterRunPipeline("once")
    /\ run_id' = 0
    /\ run_stats' = EmptyStats
    /\ UNCHANGED <<clock, store, svars, mvars, rvars, dvars, xvars>>
    /\ stats_obj' = ConstructedDict(runs)
    /\ earlier' = earlier

\* run_pipeline_once gets the result, or the exception ends the process
RunPipelineOnceEnds ==
    /\ caller = "once"
    /\ opc \in {"returned", "raised"}
    /\ opc' = "idle"
    /\ inflight' = inflight - 1
    /\ caller' = "none"
    /\ exc' = NoExc
    /\ result' = NoResult
    /\ wlog' = [wlog EXCEPT !.ended = opc]
    /\ UNCHANGED <<run_id, run_stats, runs, clock, store, svars, mvars, rvars, dvars, avars, xvars>>

\* ------------------------------------------------------------- scheduler
Modes == {"interval", "hourly", "daily"}

\* a scheduler that fires the job whether or not the previous one has ended
FiresWhileBusy == spc \in {"poll", "initial", "job"}

\* the scheduler is idle between two jobs
CanFire == spc = "poll"

\* start_interval_schedule / start_hourly_schedule: the job is registered, then
\* run_scheduled_pipeline is called at once; start_daily_schedule: the job is
\* registered and the loop starts
StartScheduler(m) ==
    /\ spc = "off"
    /\ opc = "idle"
    /\ last_sched' = clock
    /\ run_id' = 0
    /\ run_stats' = EmptyStats
    /\ stats_obj' = ConstructedDict(runs)
    /\ earlier' = earlier
    /\ IF m = "daily"
       THEN /\ spc' = "poll"
            /\ UNCHANGED <<opc, exc, result, wlog, runs, inflight, caller>>
       ELSE /\ runs < MaxRuns
            /\ spc' = "initial"
            /\ EnterRunPipeline("sched")
    /\ UNCHANGED <<clock, store, mvars, rvars, dvars, xvars>>

\* schedule.run_pending() finds the job due and calls run_scheduled_pipeline
RunPending ==
    /\ CanFire
    /\ clock > last_sched
    /\ runs < MaxRuns
    /\ spc' = "job"
    /\ EnterRunPipeline("sched")
    /\ UNCHANGED <<run_id, run_stats, last_sched, clock, store, mvars, rvars, dvars, avars, xvars>>

\* a run_scheduled_pipeline without its try/except: any exception that leaves
\* run_pipeline ends the loop
StopsOnException(pos, ended, kind) ==
    IF ended = "returned" THEN "poll"
    ELSE IF pos = "initial" THEN "crashed"
    ELSE "stopped"

\* where the scheduler goes when the run_pipeline call it made ends
AfterJob(pos, ended, kind) ==
    IF ended = "returned" \/ kind = "Exception" THEN "poll"
    ELSE IF pos = "initial" THEN "crashed"
    ELSE "stopped"

\* run_scheduled_pipeline ends: the result is logged, an Exception is caught at
\* line 40; a KeyboardInterrupt ends the loop (caught there) or, in the initial
\* run, the process
JobEnds ==
    /\ caller = "sched"
    /\ opc \in {"returned", "raised"}
    /\ spc' = AfterJob(spc, opc, exc.kind)
    /\ last_sched' = IF spc = "job" THEN clock ELSE last_sched
    /\ opc' = "idle"
    /\ inflight' = inflight - 1
    /\ caller' = "none"
    /\ exc' = NoExc
    /\ result' = NoResult
    /\ wlog' = [wlog EXCEPT !.ended = opc]
    /\ UNCHANGED <<run_id, run_stats, runs, clock, store, mvars, rvars, dvars, avars, xvars>>

\* KeyboardInterrupt while the loop sleeps or polls
StopSignal ==
    /\ spc = "poll"
    /\ spc' = "stopped"
    /\ UNCHANGED <<ovars, runs, inflight, caller, last_sched, clock, store, mvars, rvars, dvars, avars, xvars>>

\* a second of wall clock passes
Tick ==
    /\ clock < MaxClock
    /\ clock' = clock + 1
    /\ UNCHANGED <<ovars, runs, inflight, caller, svars, store, mvars, rvars, dvars, avars, xvars>>

\* ---------------------------------------------------------------- monitor
\* limit of the get_pipeline_history call of display_pipeline_status
DisplayLimit == 20

NoClean == [files |-> <<>>, calls |-> 0]

\* nothing returned yet by the orchestrator's reader
NoHistory == [set |-> FALSE, limit |-> 0, history |-> <<>>, raised |-> FALSE]

NoRead == [set |-> FALSE, limit |-> 0, history |-> <<>>, corrupted_files |-> <<>>, raised |-> FALSE]

\* glob('logs/pipeline_runs/*.json'): the names in the active directory (the
\* pattern does not descend into corrupted/)
Glob(act) == {k \in Keys : act[k].kind # "none"}

\* run_files.sort(reverse=True)
RECURSIVE SortDesc(_)
SortDesc(S) ==
    IF S = {} THEN <<>>
    ELSE LET m == CHOOSE x \in S : \A y \in S : y <= x
         IN <<m>> \o SortDesc(S \ {m})

\* the slice seq[:n] (a negative n counts from the end)
Take(seq, n) ==
    LET m == IF n >= 0 THEN (IF n < Len(seq) THEN n ELSE Len(seq))
             ELSE (IF Len(seq) + n > 0 THEN Len(seq) + n ELSE 0)
    IN SubSeq(seq, 1, m)

\* the files get_pipeline_history tries to load
Window(act, limit) == Take(SortDesc(Glob(act)), limit)

\* a loading loop that has the json.JSONDecodeError clause only
CatchesDecodeOnly(outcome) == outcome = "decode"

\* the except clauses of the loading loop: json.JSONDecodeError, then Exception
Caught(outcome) == outcome \in {"decode", "oserror"}

\* the loop of get_pipeline_history over run_files[:limit]
RECURSIVE LoadAll(_, _, _)
LoadAll(act, files, acc) ==
    IF files = <<>> THEN acc
    ELSE LET r == JsonLoad(act[Head(files)])
         IN IF r.outcome = "ok"
            THEN LoadAll(act, Tail(files), [acc EXCEPT !.history = Append(@, r.data)])
            ELSE IF Caught(r.outcome)
            THEN LoadAll(act, Tail(files), [acc EXCEPT !.corrupted_files = Append(@, Head(files))])
            ELSE [acc EXCEPT !.raised = TRUE]

\* monitor.get_pipeline_history(limit): (history, corrupted_files)
get_pipeline_history(act, limit) ==
    LoadAll(act, Window(act, limit), [NoRead EXCEPT !.set = TRUE, !.limit = limit])

\* str.lower on one character
LowerChar(c) == IF c = "Y" THEN "y" ELSE IF c = "N" THEN "n" ELSE c

\* str.lower
Lower(str) == [i \in 1..Len(str) |-> LowerChar(str[i])]

\* str.strip: leading and trailing whitespace removed
RECURSIVE Strip(_)
Strip(str) ==
    IF str = <<>> THEN str
    ELSE IF Head(str) = " " THEN Strip(Tail(str))
    ELSE IF str[Len(str)] = " " THEN Strip(SubSeq(str, 1, Len(str) - 1))
    ELSE str

\* input(...).strip().lower()
Normalize(ans) == Lower(Strip(ans))

\* a test that takes every answer starting with y for a yes
ConfirmsPrefix(ans) == Normalize(ans) # <<>> /\ Head(Normalize(ans)) = "y"

\* `if response == 'y':`
Confirms(ans) == Normalize(ans) = <<"y">>

\* what the operator may type at the prompt
Answers == {<<"y">>, <<" ", "Y">>, <<"n">>, <<"y", "e", "s">>}

\* the file the orchestrator holds open for writing is unit k of the active set
OpenByWriter(k, f, rid) == f = "active" /\ k = StatsFile(rid)

\* os.rename(file_path, backup_path): a missing source raises
\* FileNotFoundError; on Windows an existing target raises FileExistsError and
\* a source that another process holds open raises PermissionError
RenameOutcome(st, k, w) ==
    IF st.active[k].kind = "none" THEN "FileNotFoundError"
    ELSE IF w /\ st.holding[k].kind # "none" THEN "FileExistsError"
    ELSE IF w /\ OpenByWriter(k, st.fd, st.rid) THEN "PermissionError"
    ELSE "ok"

\* a move loop that only expects the target to exist already
CatchesExistsOnly(outcome) == outcome = "FileExistsError"

\* `except Exception as e:` around the move (monitor.py line 50, script line 72)
CleanCatches(outcome) == outcome \in {"FileNotFoundError", "FileExistsError", "PermissionError"}

\* unit k moved from the active set to the holding area; a file that is open
\* stays open where it now lives
Moved(st, k) ==
    [st EXCEPT !.active[k] = NoFile, !.holding[k] = st.active[k],
               !.fd = IF OpenByWriter(k, st.fd, st.rid) THEN "holding" ELSE @]

\* one pass of the loop of clean_corrupted_files: os.rename inside try/except
OsRename(st, k, w) ==
    LET o == RenameOutcome(st, k, w)
    IN IF o = "ok" THEN Moved(st, k)
       ELSE IF CleanCatches(o) THEN st
       ELSE [st EXCEPT !.raised = TRUE]

\* one pass of the loop of the clean-up script: shutil.move inside try/except.
\* shutil.move is os.rename and, when that raises OSError, copy2 then
\* os.unlink: an existing target is overwritten; on Windows the unlink of a
\* source that is open raises after the copy was made
ShutilMove(st, k, w) ==
    LET o == RenameOutcome(st, k, w)
    IN IF o \in {"ok", "FileExistsError"} THEN Moved(st, k)
       ELSE IF ~CleanCatches(o) THEN [st EXCEPT !.raised = TRUE]
       ELSE IF o = "PermissionError" THEN [st EXCEPT !.holding[k] = st.active[k]]
       ELSE st

\* the for loop of clean_corrupted_files (os.rename) / of the script (shutil.move)
RECURSIVE MoveAll(_, _, _, _)
MoveAll(st, files, w, t) ==
    IF files = <<>> \/ st.raised THEN st
    ELSE MoveAll(IF t = "status" THEN OsRename(st, Head(files), w) ELSE ShutilMove(st, Head(files), w),
                 Tail(files), w, t)

\* the store as the movers see it
StoreState == [active |-> active, holding |-> holding, fd |-> fd, rid |-> run_id, raised |-> FALSE]

\* a clean-up that moves every unit of the active directory
MovesEveryUnit(st, files, w) ==
    IF files = <<>> THEN st ELSE MoveAll(st, SortDesc(Glob(st.active)), w, "status")

\* clean_corrupted_files(corrupted_files): nothing on an empty list
clean_corrupted_files(st, files, w) ==
    IF files = <<>> THEN st ELSE MoveAll(st, files, w, "status")

\* all orders in which glob may list the set S
RECURSIVE Orders(_)
Orders(S) ==
    IF S = {} THEN {<<>>}
    ELSE UNION {{<<x>> \o o : o \in Orders(S \ {x})} : x \in S}

\* the scan of find_and_clean_corrupted_files: every file glob lists, in the
\* order glob lists them
ScriptScan(act, order) ==
    SelectSeq(order, LAMBDA k : JsonLoad(act[k]).outcome # "ok")

\* display_pipeline_status, lines 59-63: the scan, then the prompt when
\* corrupted files were found (otherwise the dashboard is printed and the call ends)
DisplayStatusScans ==
    /\ mpc = "idle"
    /\ LET r == get_pipeline_history(active, DisplayLimit)
       IN /\ corrupted_files' = r.corrupted_files
          /\ mpc' = IF r.corrupted_files # <<>> THEN "prompt" ELSE "idle"
    /\ tool' = "status"
    /\ response' = <<>>
    /\ last_read' = NoRead
    /\ cleaned' = NoClean
    /\ UNCHANGED <<ovars, runs, inflight, caller, clock, store, svars, rvars, dvars, avars, xvars>>

\* find_and_clean_corrupted_files, lines 14-56: the scan of all files, then the
\* prompt when corrupted files were found
ScriptScans ==
    /\ mpc = "idle"
    /\ \E order \in Orders(Glob(active)) :
          /\ corrupted_files' = ScriptScan(active, order)
          /\ mpc' = IF ScriptScan(active, order) # <<>> THEN "prompt" ELSE "idle"
    /\ tool' = "script"
    /\ response' = <<>>
    /\ last_read' = NoRead
    /\ cleaned' = NoClean
    /\ UNCHANGED <<ovars, runs, inflight, caller, clock, store, svars, rvars, dvars, avars, xvars>>

\* input() returns what the operator typed
OperatorResponds(ans) ==
    /\ mpc = "prompt"
    /\ response' = ans
    /\ mpc' = "answered"
    /\ UNCHANGED <<tool, corrupted_files, last_read, cleaned, ovars, runs, inflight, caller, clock, store, svars, rvars, dvars, avars, xvars>>

\* `if response == 'y':` and what follows: the files are moved, or nothing is
ActsOnResponse(w) ==
    /\ mpc = "answered"
    /\ LET st == IF Confirms(response)
                 THEN (IF tool = "status" THEN clean_corrupted_files(StoreState, corrupted_files, w)
                       ELSE MoveAll(StoreState, corrupted_files, w, "script"))
                 ELSE StoreState
       IN /\ active' = st.active
          /\ holding' = st.holding
          /\ fd' = st.fd
    /\ mpc' = "idle"
    /\ UNCHANGED <<tool, corrupted_files, response, last_read, cleaned, ovars, runs, inflight, caller, clock, svars, rvars, dvars, avars, xvars>>

\* a caller reads the history with some limit
ReadsHistory(limit) ==
    /\ mpc = "idle"
    /\ last_read' = get_pipeline_history(active, limit)
    /\ cleaned' = NoClean
    /\ tool' = "none"
    /\ corrupted_files' = <<>>
    /\ response' = <<>>
    /\ UNCHANGED <<mpc, ovars, runs, inflight, caller, clock, store, svars, rvars, dvars, avars, xvars>>

\* a loading loop without its except clause
CatchesNothing(outcome) == FALSE

\* the except clause of the orchestrator's loading loop: Exception
OrchCaught(outcome) == outcome \in {"decode", "oserror"}

\* the loop of PipelineOrchestrator.get_pipeline_history over run_files[:limit]
RECURSIVE OrchLoadAll(_, _, _)
OrchLoadAll(act, files, acc) ==
    IF files = <<>> THEN acc
    ELSE LET r == JsonLoad(act[Head(files)])
         IN IF r.outcome = "ok"
            THEN OrchLoadAll(act, Tail(files), [acc EXCEPT !.history = Append(@, r.data)])
            ELSE IF OrchCaught(r.outcome)
            THEN OrchLoadAll(act, Tail(files), acc)
            ELSE [acc EXCEPT !.raised = TRUE]

\* PipelineOrchestrator.get_pipeline_history(limit): history
orchestrator_get_pipeline_history(act, limit) ==
    OrchLoadAll(act, Take(SortDesc(Glob(act)), limit), [NoHistory EXCEPT !.set = TRUE, !.limit = limit])

\* a caller reads the history through the orchestrator with some limit
OrchReadsHistory(limit) ==
    /\ orch_read' = orchestrator_get_pipeline_history(active, limit)
    /\ UNCHANGED <<ovars, runs, inflight, caller, clock, store, svars, mvars, rvars, dvars, avars,
                   city_dimension, frame, upsert_log, facts>>

\* the lists a caller may pass to clean_corrupted_files
KeyLists == {<<>>} \cup {<<k>> : k \in Keys} \cup {<<k, j>> : k \in Keys, j \in Keys}

\* a caller calls clean_corrupted_files(files), once more with the same list or
\* with another one
CallsClean(files, w) ==
    /\ mpc = "idle"
    /\ LET st == clean_corrupted_files(StoreState, files, w)
       IN /\ active' = st.active
          /\ holding' = st.holding
          /\ fd' = st.fd
    /\ cleaned' = [files |-> files,
                   calls |-> IF cleaned.files = files /\ cleaned.calls = 1 THEN 2 ELSE 1]
    /\ last_read' = NoRead
    /\ tool' = "none"
    /\ corrupted_files' = <<>>
    /\ response' = <<>>
    /\ UNCHANGED <<mpc, ovars, runs, inflight, caller, clock, svars, rvars, dvars, avars, xvars>>

vars == <<clock, active, holding, fd, opc, run_id, run_stats, exc, result,
          wlog, runs, inflight, caller, spc, last_sched,
          mpc, tool, corrupted_files, response, last_read, cleaned,
          history, report,
          raw_files, raw_filepath, raw_read, csv_files, csv_filepath, csv_read,
          stats_obj, earlier, orch_read, city_dimension, frame, upsert_log, facts>>

\* A data file: the run_pipeline call (1, 2, ...) that wrote it last, 0 for no
\* such file, and whether its text is complete. The calls of one process are
\* sequential, so the order of the writers is the order of os.path.getctime.
NoData == [by |-> 0, ok |-> FALSE]

\* what a stage read: the call that read and the call that wrote what it read
NothingRead == [run |-> 0, by |-> 0]

\* display_pipeline_status has printed nothing
NoOverview == [shown |-> FALSE, printed |-> FALSE, total_runs |-> 0, successful_runs |-> 0,
               failed_runs |-> 0, success_rate |-> 0]

\* display_pipeline_errors has printed nothing
NoErrors == [shown |-> FALSE, total_failed |-> 0, runs |-> <<>>, more |-> 0]

\* no report printed
NoReport == [overview |-> NoOverview, errors |-> NoErrors]

\* no display function has run and the data directories are empty
InitFiles ==
    /\ history = <<>>
    /\ report = NoReport
    /\ raw_files = [k \in Keys |-> NoData]
    /\ raw_filepath = 0
    /\ raw_read = NothingRead
    /\ csv_files = [k \in Keys |-> NoData]
    /\ csv_filepath = 0
    /\ csv_read = NothingRead
    /\ stats_obj = NoDict
    /\ earlier = NothingKept
    /\ orch_read = NoHistory
    /\ city_dimension = <<>>
    /\ frame = <<>>
    /\ upsert_log = NoUpserts
    /\ facts = NoFacts

Init ==
    /\ clock = 1
    /\ active = [k \in Keys |-> NoFile]
    /\ holding = [k \in Keys |-> NoFile]
    /\ fd = "closed"
    /\ opc = "idle"
    /\ run_id = 0
    /\ run_stats = EmptyStats
    /\ exc = NoExc
    /\ result = NoResult
    /\ wlog = NoWrites
    /\ runs = 0
    /\ inflight = 0
    /\ caller = "none"
    /\ spc = "off"
    /\ last_sched = 0
    /\ mpc = "idle"
    /\ tool = "none"
    /\ corrupted_files = <<>>
    /\ response = <<>>
    /\ last_read = NoRead
    /\ cleaned = NoClean
    /\ InitFiles

\* one step of a run_pipeline call
OrchestratorStep ==
    \/ BeginRun
    \/ \E i \in 1..PipelineLength : StageSucceeds(StageOrder[i])
    \/ \E i \in 1..PipelineLength, msg \in ErrMsgs, c \in BOOLEAN : StageFails(StageOrder[i], msg, c)
    \/ LoadingReturns
    \/ \E msg \in ErrMsgs, c \in BOOLEAN : LoadingStatsFail(msg, c)
    \/ LoadingCloseFails
    \/ \E r \in BOOLEAN : LogEndSuccess(r)
    \/ \E r \in BOOLEAN : LogEndFailed(r)
    \/ \E f \in BOOLEAN : OpenStatsFile(f)
    \/ DumpStats(TRUE, 0)
    \/ \E p \in DumpFailPoints : DumpStats(FALSE, p)
    \/ ReturnResult
    \/ Interrupt

\* The orchestrator, called once or by the scheduler.
Next ==
    \/ OrchestratorStep
    \/ RunPipelineOnce
    \/ RunPipelineOnceEnds
    \/ \E m \in Modes : StartScheduler(m)
    \/ RunPending
    \/ JobEnds
    \/ StopSignal
    \/ Tick

Spec == Init /\ [][Next]_vars

\* The scheduling loop as it runs: `while True: schedule.run_pending();
\* time.sleep(...)` never ends by itself, so time goes on and a job that is due
\* is run at the next poll.
\* The process is the one scheduler.py starts (start_scheduler): every run is
\* made by run_scheduled_pipeline.
NextSched ==
    \/ OrchestratorStep
    \/ \E m \in Modes : StartScheduler(m)
    \/ RunPending
    \/ JobEnds
    \/ StopSignal
    \/ Tick

SpecLive == Init /\ [][NextSched]_vars /\ WF_vars(Tick) /\ WF_vars(RunPending)

\* ------------------------------------------------- the city dimension
CityIds == 1..MaxCities

CityNames == {"London", "Paris"}

\* a row of the frame: timezone_offset_sec is an integer or NaN (the API record
\* had no 'timezone')
FrameRows == [city_id : CityIds, city_name : CityNames, timezone_offset_sec : {"int", "nan"}]

Frames == UNION {[1..n -> FrameRows] : n \in 1..MaxCities}

\* city_name is declared unique: no two rows of the table share a name
UniqueNames(t) ==
    \A a, b \in CityIds : (a # b /\ t[a].present /\ t[b].present) => t[a].city_name # t[b].city_name

\* the tables the database can hold
Tables ==
    {t \in [CityIds -> {NoRow} \cup [present : {TRUE}, city_name : CityNames,
                                      timezone_offset_sec : {"int", "None"}]] : UniqueNames(t)}

\* drop_duplicates(subset=['city_id']): the first row of every city_id is kept
Kept(df) == {i \in 1..Len(df) : \A j \in 1..(i - 1) : df[j].city_id # df[i].city_id}

\* the body of the loop for one row: the existing row is assigned the frame's
\* values as they are, a missing row is built with NaN turned into None
UpsertRow(t, row) ==
    IF t[row.city_id].present
    THEN [t EXCEPT ![row.city_id] = [present |-> TRUE, city_name |-> row.city_name,
                                      timezone_offset_sec |-> row.timezone_offset_sec]]
    ELSE [t EXCEPT ![row.city_id] = [present |-> TRUE, city_name |-> row.city_name,
                                      timezone_offset_sec |-> IF row.timezone_offset_sec = "nan"
                                                              THEN "None" ELSE "int"]]

\* the flush of one row's change (at the next query or at the commit): the
\* unique constraint on city_name, and a database that rejects NaN for an
\* Integer column when `strict`
FlushFails(t, strict) ==
    \/ ~UniqueNames(t)
    \/ strict /\ \E c \in CityIds : t[c].present /\ t[c].timezone_offset_sec = "nan"

\* the loop of upsert_city_dimension from row i on, over the pending table t
RECURSIVE UpsertFrom(_, _, _, _)
UpsertFrom(t, df, i, strict) ==
    IF i > Len(df) THEN [table |-> t, raised |-> FALSE]
    ELSE IF i \notin Kept(df) THEN UpsertFrom(t, df, i + 1, strict)
    ELSE LET u == UpsertRow(t, df[i])
         IN IF FlushFails(u, strict) THEN [table |-> t, raised |-> TRUE]
            ELSE UpsertFrom(u, df, i + 1, strict)

\* upsert_city_dimension(df): the table afterwards; the exception of a failed
\* flush leaves the method before session.commit(), nothing is committed
upsert_city_dimension(table, df, strict) ==
    LET r == UpsertFrom(table, df, 1, strict)
    IN IF r.raised THEN [table |-> table, raised |-> TRUE] ELSE r

\* the loader is called with the frame, a first and then a second time
UpsertCityDimension(strict) ==
    /\ upsert_log.calls < 2
    /\ ~upsert_log.raised
    /\ LET r == upsert_city_dimension(city_dimension, frame, strict)
       IN /\ city_dimension' = r.table
          /\ upsert_log' = [calls |-> upsert_log.calls + 1,
                            raised |-> r.raised,
                            before |-> IF upsert_log.calls = 0 THEN city_dimension ELSE upsert_log.before,
                            first |-> IF upsert_log.calls = 0 THEN r.table ELSE upsert_log.first]
    /\ UNCHANGED <<ovars, runs, inflight, caller, clock, store, svars, mvars, rvars, dvars, avars,
                   orch_read, frame, facts>>

\* upsert_city_dimension over any table and any frame
InitUpsert ==
    /\ clock = 1
    /\ active = [k \in Keys |-> NoFile]
    /\ holding = [k \in Keys |-> NoFile]
    /\ fd = "closed"
    /\ opc = "idle"
    /\ run_id = 0
    /\ run_stats = EmptyStats
    /\ exc = NoExc
    /\ result = NoResult
    /\ wlog = NoWrites
    /\ runs = 0
    /\ inflight = 0
    /\ caller = "none"
    /\ spc = "off"
    /\ last_sched = 0
    /\ mpc = "idle"
    /\ tool = "none"
    /\ corrupted_files = <<>>
    /\ response = <<>>
    /\ last_read = NoRead
    /\ cleaned = NoClean
    /\ history = <<>>
    /\ report = NoReport
    /\ raw_files = [k \in Keys |-> NoData]
    /\ raw_filepath = 0
    /\ raw_read = NothingRead
    /\ csv_files = [k \in Keys |-> NoData]
    /\ csv_filepath = 0
    /\ csv_read = NothingRead
    /\ stats_obj = NoDict
    /\ earlier = NothingKept
    /\ orch_read = NoHistory
    /\ city_dimension \in Tables
    /\ frame \in Frames
    /\ upsert_log = NoUpserts
    /\ facts = NoFacts

NextUpsert == \E strict \in BOOLEAN : UpsertCityDimension(strict)

SpecUpsert == InitUpsert /\ [][NextUpsert]_vars

\* a caller keeps the dict that run_pipeline returned as result['stats']: it is
\* the object self.run_stats is bound to (lines 344 and 358)
KeepsResult ==
    /\ opc = "returned"
    /\ earlier.obj # stats_obj
    /\ earlier' = [obj |-> stats_obj, stats |-> result.stats]
    /\ UNCHANGED <<ovars, runs, inflight, caller, clock, store, svars, mvars, rvars, dvars, stats_obj, xvars>>

\* The scheduler's runs on its one orchestrator, with a caller that keeps what
\* run_pipeline returned.
NextReuse ==
    \/ NextSched
    \/ KeepsResult

SpecReuse == Init /\ [][NextReuse]_vars

\* The records earlier runs may have left in the store under key k: a run whose
\* four stages succeeded and a run whose extraction failed.
RECURSIVE AllSucceeded(_, _)
AllSucceeded(stages, i) ==
    IF i > PipelineLength THEN stages
    ELSE AllSucceeded(SetStage(stages, SuccessEntry(StageOrder[i])), i + 1)

SuccessRecord(k) ==
    FinalizeStats([log_pipeline_start(k) EXCEPT !.stages = AllSucceeded(<<>>, 1)],
                  "success", FALSE, "")

FailedRecord(k) ==
    FinalizeStats([log_pipeline_start(k) EXCEPT !.stages = SetStage(<<>>, FailedEntry(StageOrder[1], "boom"))],
                  "failed", TRUE, "boom")

\* what the active directory may hold under key k
Units(k) == {NoFile, EmptyFile, UnreadableUnit, JsonDump(SuccessRecord(k)), JsonDump(FailedRecord(k))}

\* The monitor and the clean-up script over any store, no run in progress.
InitMon ==
    /\ clock = 1
    /\ active \in {f \in [Keys -> UNION {Units(k) : k \in Keys}] : \A k \in Keys : f[k] \in Units(k)}
    /\ holding \in [Keys -> {NoFile, EmptyFile}]
    /\ fd = "closed"
    /\ opc = "idle"
    /\ run_id = 0
    /\ run_stats = EmptyStats
    /\ exc = NoExc
    /\ result = NoResult
    /\ wlog = NoWrites
    /\ runs = 0
    /\ inflight = 0
    /\ caller = "none"
    /\ spc = "off"
    /\ last_sched = 0
    /\ mpc = "idle"
    /\ tool = "none"
    /\ corrupted_files = <<>>
    /\ response = <<>>
    /\ last_read = NoRead
    /\ cleaned = NoClean
    /\ InitFiles

\* one step of the monitor or of the clean-up script
MonitorStep ==
    \/ DisplayStatusScans
    \/ \E ans \in Answers : OperatorResponds(ans)
    \/ \E w \in BOOLEAN : ActsOnResponse(w)

NextMon ==
    \/ MonitorStep
    \/ ScriptScans
    \/ \E limit \in -1..MaxLimit : ReadsHistory(limit)
    \/ \E files \in KeyLists, w \in BOOLEAN : CallsClean(files, w)

SpecMon == InitMon /\ [][NextMon]_vars

\* The two readers of the history over any store, no run in progress.
NextReaders ==
    \/ \E limit \in -1..MaxLimit : ReadsHistory(limit)
    \/ \E limit \in -1..MaxLimit : OrchReadsHistory(limit)

SpecReaders == InitMon /\ [][NextReaders]_vars

\* The orchestrator, called once at a time, with display_pipeline_status
\* running beside it.
NextConc ==
    \/ OrchestratorStep
    \/ RunPipelineOnce
    \/ RunPipelineOnceEnds
    \/ Tick
    \/ MonitorStep

SpecConc == Init /\ [][NextConc]_vars

\* ------------------------------------------------ monitor: the statistics
\* loaded records explored by the statistics
MaxHistory == 3

\* failed_runs[:10]: the failed runs display_pipeline_errors prints in detail
ErrorsCap == 10

\* the entries of a run whose first n stages succeeded
FirstSucceeded(n) == [i \in 1..n |-> SuccessEntry(StageOrder[i])]

\* the record of a run whose loading succeeded and whose loader.close() raised
\* in run_loading's finally
CloseFailedRecord(k) ==
    FinalizeStats([log_pipeline_start(k) EXCEPT !.stages = FirstSucceeded(3)],
                  "failed", TRUE, CloseErr)

\* the record of a run whose extraction raised an exception with an empty message
SilentFailedRecord(k) ==
    FinalizeStats([log_pipeline_start(k) EXCEPT !.stages = SetStage(<<>>, FailedEntry(StageOrder[1], ""))],
                  "failed", TRUE, "")

RecordKinds == {"success", "failed", "close_failed", "silent_failed"}

\* a record log_pipeline_end has written under key k
RecordOf(kind, k) ==
    CASE kind = "success" -> SuccessRecord(k)
      [] kind = "failed" -> FailedRecord(k)
      [] kind = "close_failed" -> CloseFailedRecord(k)
      [] OTHER -> SilentFailedRecord(k)

\* what get_pipeline_history returns over files 1..k, each absent or holding a
\* record: the loaded records, largest name first
RECURSIVE HistoryOf(_, _)
HistoryOf(f, k) ==
    IF k = 0 THEN <<>>
    ELSE (IF f[k] = "none" THEN <<>> ELSE <<RecordOf(f[k], k)>>) \o HistoryOf(f, k - 1)

Histories == {HistoryOf(f, MaxHistory) : f \in [1..MaxHistory -> RecordKinds \cup {"none"}]}

\* run.get('status')
StatusOf(run) == IF "status" \in run.has THEN run.status ELSE "None"

\* a success count without the status test
CountsEveryRun(h) == Len(h)

total_runs(h) == Len(h)

\* sum(1 for run in history if run.get('status') == 'success')
successful_runs(h) == Cardinality({i \in 1..Len(h) : StatusOf(h[i]) = "success"})

failed_runs(h) == total_runs(h) - successful_runs(h)

\* f"{n / d * 100:.1f}" in tenths of a percent: the nearest tenth, a tie to the
\* even digit
OneDecimal(n, d) ==
    LET q == (1000 * n) \div d
        r == (1000 * n) % d
    IN IF 2 * r > d \/ (2 * r = d /\ q % 2 = 1) THEN q + 1 ELSE q

success_rate(h) == IF total_runs(h) > 0 THEN OneDecimal(successful_runs(h), total_runs(h)) ELSE 0

\* [run for run in history if run.get('status') == 'failed']
SelectFailed(h) == SelectSeq(h, LAMBDA run : StatusOf(run) = "failed")

\* the lines "Failed Stage / Stage Error" of one run: every entry of
\* run['stages'] whose status is 'failed', in iteration order
FailedStageLines(run) ==
    SelectSeq(IF "stages" \in run.has THEN run.stages ELSE <<>>,
              LAMBDA e : e.status = "failed")

\* the block printed for one failed run
ErrorBlock(run) ==
    [run_id |-> run.run_id,
     error |-> IF "error" \in run.has THEN run.error ELSE "Unknown error",
     failed_stages |-> [i \in 1..Len(FailedStageLines(run)) |->
                          [name |-> FailedStageLines(run)[i].name,
                           error |-> FailedStageLines(run)[i].error]]]

\* display_pipeline_status, lines 68-86, over the loaded history
DisplayOverview ==
    /\ ~report.overview.shown
    /\ report' = [report EXCEPT !.overview =
                     IF history = <<>>
                     THEN [NoOverview EXCEPT !.shown = TRUE]
                     ELSE [shown |-> TRUE, printed |-> TRUE,
                           total_runs |-> total_runs(history),
                           successful_runs |-> successful_runs(history),
                           failed_runs |-> failed_runs(history),
                           success_rate |-> success_rate(history)]]
    /\ UNCHANGED <<ovars, runs, inflight, caller, clock, store, svars, mvars, history, dvars, avars, xvars>>

\* what display_pipeline_errors prints for the history h, lines 172-196
ErrorsReport(h) ==
    LET failed == SelectFailed(h)
    IN [shown |-> TRUE,
        total_failed |-> Len(failed),
        runs |-> [i \in 1..Len(Take(failed, ErrorsCap)) |-> ErrorBlock(failed[i])],
        more |-> IF Len(failed) > ErrorsCap THEN Len(failed) - ErrorsCap ELSE 0]

\* display_pipeline_errors, lines 172-196, over the loaded history
DisplayErrors ==
    /\ ~report.errors.shown
    /\ report' = [report EXCEPT !.errors = ErrorsReport(history)]
    /\ UNCHANGED <<ovars, runs, inflight, caller, clock, store, svars, mvars, history, dvars, avars, xvars>>

\* limit of the get_pipeline_history call of display_pipeline_errors
ErrorsLimit == 50

\* display_pipeline_errors, the whole call: the history is read from the store
\* and the failed runs are printed; corrupted files are counted, never moved
DisplayErrorsScans ==
    /\ mpc = "idle"
    /\ LET r == get_pipeline_history(active, ErrorsLimit)
       IN /\ history' = r.history
          /\ report' = [report EXCEPT !.errors = ErrorsReport(r.history)]
          /\ corrupted_files' = r.corrupted_files
    /\ tool' = "errors"
    /\ response' = <<>>
    /\ last_read' = NoRead
    /\ cleaned' = NoClean
    /\ UNCHANGED <<mpc, ovars, runs, inflight, caller, clock, store, svars, dvars, avars, xvars>>

\* The two display functions of the monitor over any store, no run in progress.
NextFrame ==
    \/ MonitorStep
    \/ DisplayErrorsScans

SpecFrame == InitMon /\ [][NextFrame]_vars

\* the display functions over any loaded history
InitStats ==
    /\ clock = 1
    /\ active = [k \in Keys |-> NoFile]
    /\ holding = [k \in Keys |-> NoFile]
    /\ fd = "closed"
    /\ opc = "idle"
    /\ run_id = 0
    /\ run_stats = EmptyStats
    /\ exc = NoExc
    /\ result = NoResult
    /\ wlog = NoWrites
    /\ runs = 0
    /\ inflight = 0
    /\ caller = "none"
    /\ spc = "off"
    /\ last_sched = 0
    /\ mpc = "idle"
    /\ tool = "none"
    /\ corrupted_files = <<>>
    /\ response = <<>>
    /\ last_read = NoRead
    /\ cleaned = NoClean
    /\ history \in Histories
    /\ report = NoReport
    /\ raw_files = [k \in Keys |-> NoData]
    /\ raw_filepath = 0
    /\ raw_read = NothingRead
    /\ csv_files = [k \in Keys |-> NoData]
    /\ csv_filepath = 0
    /\ csv_read = NothingRead
    /\ stats_obj = NoDict
    /\ earlier = NothingKept
    /\ orch_read = NoHistory
    /\ city_dimension = <<>>
    /\ frame = <<>>
    /\ upsert_log = NoUpserts
    /\ facts = NoFacts

NextStats ==
    \/ DisplayOverview
    \/ DisplayErrors

SpecStats == InitStats /\ [][NextStats]_vars

\* ------------------------------------------------ the stages' data files
\* save_raw_data: the file is written, open() raises (nothing is written), or
\* json.dump raises (a partial text is left)
SaveOutcomes == {"saved", "open_failed", "dump_failed"}

\* extractor.save_raw_data(raw_data, f"weather_raw_{run_id}.json"): the files
\* afterwards
save_raw_data(files, rid, run, outcome) ==
    CASE outcome = "saved" -> [files EXCEPT ![rid] = [by |-> run, ok |-> TRUE]]
      [] outcome = "dump_failed" -> [files EXCEPT ![rid] = [by |-> run, ok |-> FALSE]]
      [] OTHER -> files

\* the filepath save_raw_data returns: None (0) from its except branch
SavedPath(rid, outcome) == IF outcome = "saved" THEN rid ELSE 0

\* max(glob(...), key=os.path.getctime), 0 when the glob is empty
Latest(files) ==
    IF \A k \in Keys : files[k].by = 0 THEN 0
    ELSE CHOOSE k \in Keys : files[k].by # 0 /\ \A j \in Keys : files[j].by <= files[k].by

\* the file load_raw_data / load_processed_data opens: the path it is given,
\* the latest file when the path is None
ResolvePath(files, filepath) == IF filepath = 0 THEN Latest(files) ELSE filepath

\* load_raw_data / load_processed_data: the writer of the data returned, 0 for
\* None (no file, or open / parse raises)
LoadedFrom(files, filepath) ==
    LET path == ResolvePath(files, filepath)
    IN IF path # 0 /\ files[path].by # 0 /\ files[path].ok THEN files[path].by ELSE 0

\* run_extraction reaches its success entry: the data is extracted and
\* save_raw_data has returned
ExtractionSaves(outcome) ==
    /\ opc = "extraction"
    /\ run_stats' = [run_stats EXCEPT !.stages = SetStage(@, SuccessEntry("extraction"))]
    /\ raw_files' = save_raw_data(raw_files, run_id, runs, outcome)
    /\ raw_filepath' = SavedPath(run_id, outcome)
    /\ opc' = AfterStage("extraction")
    /\ UNCHANGED <<run_id, exc, result, wlog, runs, inflight, caller, clock, store, svars, mvars, rvars,
                   raw_read, csv_files, csv_filepath, csv_read, xvars>>
    /\ stats_obj' = stats_obj
    /\ earlier' = Aliased(earlier, stats_obj, run_stats')

\* run_transformation(raw_filepath) reaches its success entry: load_raw_data
\* returned data, the steps and save_transformed_data (named by the clock) passed
TransformationSaves ==
    /\ opc = "transformation"
    /\ LoadedFrom(raw_files, raw_filepath) # 0
    /\ raw_read' = [run |-> runs, by |-> LoadedFrom(raw_files, raw_filepath)]
    /\ csv_files' = [csv_files EXCEPT ![clock] = [by |-> runs, ok |-> TRUE]]
    /\ csv_filepath' = clock
    /\ run_stats' = [run_stats EXCEPT !.stages = SetStage(@, SuccessEntry("transformation"))]
    /\ opc' = AfterStage("transformation")
    /\ UNCHANGED <<run_id, exc, result, wlog, runs, inflight, caller, clock, store, svars, mvars, rvars,
                   raw_files, raw_filepath, csv_read, xvars>>
    /\ stats_obj' = stats_obj
    /\ earlier' = Aliased(earlier, stats_obj, run_stats')

\* load_weather_facts(df) on a frame of `rows` rows: df.to_sql appends them all
\* and len(df) is returned, or to_sql raises, nothing stays appended, the
\* exception is logged and 0 is returned
load_weather_facts(rows, inserted) ==
    IF inserted
    THEN [called |-> TRUE, rows |-> rows, failed |-> FALSE, appended |-> rows, records_loaded |-> rows]
    ELSE [called |-> TRUE, rows |-> rows, failed |-> TRUE, appended |-> 0, records_loaded |-> 0]

\* run_loading(csv_filepath) reaches its success entry: load_processed_data
\* returned the table, upsert_city_dimension passed and load_weather_facts
\* returned
LoadingLoads(rows, inserted) ==
    /\ opc = "loading"
    /\ LoadedFrom(csv_files, csv_filepath) # 0
    /\ facts' = load_weather_facts(rows, inserted)
    /\ csv_read' = [run |-> runs, by |-> LoadedFrom(csv_files, csv_filepath)]
    /\ run_stats' = [run_stats EXCEPT !.stages = SetStage(@, SuccessEntry("loading"))]
    /\ opc' = AfterStage("loading")
    /\ UNCHANGED <<run_id, exc, result, wlog, runs, inflight, caller, clock, store, svars, mvars, rvars,
                   raw_files, raw_filepath, raw_read, csv_files, csv_filepath,
                   orch_read, city_dimension, frame, upsert_log>>
    /\ stats_obj' = stats_obj
    /\ earlier' = Aliased(earlier, stats_obj, run_stats')

\* run_pipeline_once with the files the stages hand over
NextData ==
    \/ RunPipelineOnce
    \/ RunPipelineOnceEnds
    \/ BeginRun
    \/ \E o \in SaveOutcomes : ExtractionSaves(o)
    \/ TransformationSaves
    \/ \E rows \in 0..MaxRows, inserted \in BOOLEAN : LoadingLoads(rows, inserted)
    \/ LoadingReturns
    \/ StageSucceeds("analytics")
    \/ \E i \in 1..PipelineLength, msg \in ErrMsgs : StageFails(StageOrder[i], msg, FALSE)
    \/ LogEndSuccess(FALSE)
    \/ LogEndFailed(FALSE)
    \/ OpenStatsFile(FALSE)
    \/ DumpStats(TRUE, 0)
    \/ ReturnResult
    \/ Tick

SpecData == Init /\ [][NextData]_vars

\* ================================================================ claims
Range(seq) == {seq[i] : i \in 1..Len(seq)}

StagePcs == Range(StageOrder) \cup {"loading_post"}

HasFailed(stages) == \E i \in 1..Len(stages) : stages[i].status = "failed"

FailedLast(stages) == \A i \in 1..Len(stages) : stages[i].status = "failed" => i = Len(stages)

EveryStageSucceeded(stages) ==
    Len(stages) = PipelineLength /\ \A i \in 1..Len(stages) : stages[i].status = "success"

Loads(act, k) == JsonLoad(act[k]).outcome = "ok"

StoredRecords == {JsonLoad(active[k]).data : k \in {j \in Keys : Loads(active, j)}}

\* the records run_pipeline has finalized: the one it returned, the ones stored
FinalizedRecords == (IF opc = "returned" THEN {result.stats} ELSE {}) \cup StoredRecords

\* C1 (fail-fast): in every run a stage entry with status 'failed' is the last
\* entry of run_stats['stages'], in memory and in every stored record, and no
\* stage method is running or about to run once such an entry exists.
C1_FailFast ==
    /\ FailedLast(run_stats.stages)
    /\ HasFailed(run_stats.stages) => opc \notin StagePcs
    /\ \A r \in FinalizedRecords : FailedLast(r.stages)

\* C1 witness: extraction succeeded, transformation failed, the run returned
\* with exactly these two entries.
C1_Witness ==
    /\ opc = "returned"
    /\ result.status = "failed"
    /\ result.stats.stages = <<SuccessEntry("extraction"), FailedEntry("transformation", "boom")>>

\* C2 (as claimed): every finalized record has status 'success' exactly when
\* its stages mapping has four entries, all of them 'success'.
C2_SuccessIffEveryStageSucceeded ==
    \A r \in FinalizedRecords : (r.status = "success") <=> EveryStageSucceeded(r.stages)

C4_PersistedOnEveryExit ==
    opc \in {"returned", "raised"} => wlog.completed >= 1

\* C5 (as claimed): a scan that runs while the orchestrator has the unit of its
\* run open for writing does not report that unit as corrupted.
C5_ReaderNeverSeesPartialWrite ==
    (mpc = "prompt" /\ opc = "dump" /\ fd = "active") =>
        StatsFile(run_id) \notin Range(corrupted_files)

\* C6: a get_pipeline_history call does not raise; every unit of the scanned
\* window that fails to load is in the corrupted list and contributes no
\* record, every unit that loads contributes its record and is not in the
\* corrupted list, and nothing else is returned.
C6_ReaderClassifiesEveryUnit ==
    last_read.set =>
        LET win == Window(active, last_read.limit)
        IN /\ ~last_read.raised
           /\ \A k \in Range(win) :
                 IF Loads(active, k)
                 THEN /\ JsonLoad(active[k]).data \in Range(last_read.history)
                      /\ k \notin Range(last_read.corrupted_files)
                 ELSE /\ k \in Range(last_read.corrupted_files)
                      /\ \A r \in Range(last_read.history) : r.run_id # k
           /\ Len(last_read.history) + Len(last_read.corrupted_files) = Len(win)

\* C6 witness: a read that returned a record and an unreadable key.
C6_Witness ==
    /\ last_read.set
    /\ last_read.limit >= 2
    /\ Len(last_read.history) >= 1
    /\ \E k \in Range(last_read.corrupted_files) : active[k] = UnreadableUnit

Readable(act) == {k \in Glob(act) : Loads(act, k)}

Newest(act, n) ==
    LET srt == SortDesc(Readable(act))
    IN [i \in 1..(IF n < Len(srt) THEN n ELSE Len(srt)) |-> JsonLoad(act[srt[i]]).data]

\* C7 (as claimed): get_pipeline_history(limit) returns the min(limit, R)
\* readable records with the greatest run ids, newest first.
C7_NewestReadableRecords ==
    (last_read.set /\ last_read.limit >= 0) =>
        last_read.history = Newest(active, last_read.limit)

Leaves(k) == active[k].kind # "none" /\ active'[k].kind = "none"

DirectClean == cleaned' # cleaned /\ cleaned'.calls > 0

ReadLimits == (0..MaxLimit) \cup {DisplayLimit}

\* C9 (as claimed): in the monitor and in the clean-up script a unit leaves
\* the active set only when the answer to the prompt is exactly 'y'.
C9_MovesOnlyOnExactY ==
    [][\A k \in Keys : (Leaves(k) /\ ~DirectClean) => response = <<"y">>]_vars

\* C9 (amended): a get_pipeline_history call and the scans of both tools leave
\* the store unchanged; in display_pipeline_status and in the clean-up script
\* a unit leaves the active set only in the step that acts on an answer which,
\* stripped and lower-cased, equals 'y'; and a unit moved that way is neither
\* returned nor reported by a read of the store it left.
C9_MovesOnlyOnConfirmation ==
    [][/\ (last_read' # last_read /\ last_read'.set) => UNCHANGED <<active, holding>>
       /\ (mpc = "idle" /\ ~DirectClean) => UNCHANGED <<active, holding>>
       /\ \A k \in Keys : (Leaves(k) /\ ~DirectClean) =>
             /\ mpc = "answered"
             /\ Normalize(response) = <<"y">>
             /\ \A limit \in ReadLimits :
                   LET r == get_pipeline_history(active', limit)
                   IN /\ k \notin Range(r.corrupted_files)
                      /\ \A rec \in Range(r.history) : rec.run_id # k]_vars

\* C9 witness: the clean-up script moved the corrupted units it had found
\* after the operator typed " Y".
C9_Witness ==
    /\ mpc = "idle"
    /\ tool = "script"
    /\ response = <<" ", "Y">>
    /\ corrupted_files # <<>>
    /\ \A k \in Range(corrupted_files) : active[k].kind = "none" /\ holding[k].kind # "none"

\* the scheduler calls run_pipeline
SchedStartsRun == runs' = runs + 1 /\ caller' = "sched"

\* C10 (as claimed): a scheduled run starts only when no run is in progress
\* and, if the scheduler made the previous call, that call has returned and
\* its record is in the store.
C10_NextRunAfterPersisted ==
    [][(SchedStartsRun /\ wlog.by = "sched") =>
          /\ inflight = 0
          /\ wlog.ended = "returned"
          /\ JsonLoad(active[run_id]) = [outcome |-> "ok", data |-> run_stats]]_vars

\* C10 (amended): at most one run_pipeline call is in progress at any time and
\* none while the scheduler polls; a scheduled run starts only after the
\* previous call has ended, by returning or by raising, and when that call
\* returned after a dump that ran to completion its record is in the store
\* under its run id.
C10_NonOverlap ==
    /\ [](inflight <= 1 /\ (spc = "poll" => inflight = 0 /\ opc = "idle"))
    /\ [][SchedStartsRun =>
             /\ inflight = 0
             /\ opc = "idle"
             /\ wlog.by = "sched" => wlog.ended \in {"returned", "raised"}
             /\ (wlog.by = "sched" /\ wlog.ended = "returned" /\ wlog.completed = 1) =>
                    JsonLoad(active[run_id]) = [outcome |-> "ok", data |-> run_stats]]_vars

\* C10 witness: the second scheduled run is in its first stage, a second of
\* clock after the first, whose record is in the store.
C10_Witness ==
    /\ spc = "job"
    /\ caller = "sched"
    /\ opc = "extraction"
    /\ inflight = 1
    /\ runs = 2
    /\ run_id = 2
    /\ Loads(active, 1)

\* a run_pipeline call made by the scheduler ends
SchedRunEnds == caller = "sched" /\ caller' = "none"

\* C12 (as claimed): every fire of run_scheduled_pipeline ends having written
\* exactly one record, which is in the store under the run's id.
C12_ExactlyOneRecordPerFire ==
    [][SchedRunEnds => (wlog.completed = 1 /\ Loads(active, run_id))]_vars

\* C13 (as claimed): the scheduler stops, or the process ends, while the
\* scheduler's run_pipeline call is in flight only when that call has returned.
C13_StopWaitsForRun ==
    [][(caller = "sched" /\ inflight = 1 /\ spc' \in {"stopped", "crashed"}) =>
          opc = "returned"]_vars

FailedEntries(stages) == {i \in 1..Len(stages) : stages[i].status = "failed"}

\* C16 (as claimed): every finalized record with status 'failed' has an error
\* key and exactly one failed stage entry, whose error is the record's error.
C16_FailedRecordExplainable ==
    \A r \in FinalizedRecords :
        r.status = "failed" =>
            /\ "error" \in r.has
            /\ Cardinality(FailedEntries(r.stages)) = 1
            /\ \A i \in FailedEntries(r.stages) : r.stages[i].error = r.error

StageNames(stages) == [i \in 1..Len(stages) |-> stages[i].name]

IsPrefix(s, t) == Len(s) <= Len(t) /\ s = SubSeq(t, 1, Len(s))

\* C17 (stage order): the keys of run_stats['stages'], and of every finalized
\* record, are in insertion order a prefix of (extraction, transformation,
\* loading, analytics); while stage i runs the mapping holds exactly the
\* entries of the i-1 earlier stages, all of them 'success'.
C17_StageOrder ==
    /\ IsPrefix(StageNames(run_stats.stages), StageOrder)
    /\ \A r \in FinalizedRecords : IsPrefix(StageNames(r.stages), StageOrder)
    /\ \A i \in 1..PipelineLength :
          opc = StageOrder[i] =>
              /\ Len(run_stats.stages) = i - 1
              /\ \A j \in 1..Len(run_stats.stages) : run_stats.stages[j].status = "success"
    /\ opc = "loading_post" =>
          /\ Len(run_stats.stages) = 3
          /\ \A j \in 1..Len(run_stats.stages) : run_stats.stages[j].status = "success"

\* C17 witness: run_analytics is running on three recorded successes.
C17_Witness ==
    /\ opc = "analytics"
    /\ StageNames(run_stats.stages) = <<"extraction", "transformation", "loading">>

\* C19 (write error): a failing open() or json.dump does not leave
\* log_pipeline_end as an exception and changes neither run_stats, run_id nor
\* the exception being reported, and what run_pipeline returns is made of
\* these alone: the status, run id and stage entries are those a successful
\* write would have been followed by.
C19_WriteErrorSwallowed ==
    /\ [](opc = "returned" =>
             /\ result.status = run_stats.status
             /\ result.run_id = run_id
             /\ result.stats = run_stats)
    /\ [][(opc \in {"open", "dump"} /\ exc'.kind # "KeyboardInterrupt") =>
             /\ opc' \in {"open", "dump", "logged"}
             /\ run_stats' = run_stats
             /\ run_id' = run_id
             /\ exc' = exc]_vars

\* C19 witness: a run whose four stages succeeded returned 'success' although
\* its write failed.
C19_Witness ==
    /\ opc = "returned"
    /\ wlog.attempts = 1
    /\ wlog.completed = 0
    /\ result.status = "success"
    /\ EveryStageSucceeded(result.stats.stages)

\* C20 (as claimed): while a run is between log_pipeline_start and
\* log_pipeline_end the store holds no unit under its run id, and every stored
\* record is finalized with status 'success' or 'failed'.
C20_InProgressRunInvisible ==
    /\ opc \in StagePcs \cup {"end_s", "end_f"} => active[StatsFile(run_id)].kind = "none"
    /\ \A r \in StoredRecords :
          /\ r.status \in {"success", "failed"}
          /\ {"end_time", "duration_seconds"} \subseteq r.has

LoopEnded == spc \in {"stopped", "crashed"}

\* a run made by the scheduler has ended in failure and the loop is polling
FailedRunEnded ==
    /\ spc = "poll"
    /\ wlog.by = "sched"
    /\ wlog.ended \in {"returned", "raised"}
    /\ run_stats.status = "failed"

\* the explored part of the execution has room for another fire
CanStillFire == runs < MaxRuns /\ (clock > last_sched \/ clock < MaxClock)

\* C11 (liveness across failures): the scheduling loop ends only by a
\* KeyboardInterrupt (while polling, or propagating out of the run in flight);
\* a scheduled run that ends in any other way - a result, whatever its status,
\* or an Exception leaving run_pipeline - puts the loop back to polling; and
\* after a failed run the next run is fired unless the loop is stopped.
C11_LoopSurvivesFailures ==
    /\ [][(~LoopEnded /\ LoopEnded') => (spc = "poll" \/ exc.kind = "KeyboardInterrupt")]_vars
    /\ [][(caller = "sched" /\ caller' = "none" /\ exc.kind # "KeyboardInterrupt") =>
             spc' = "poll"]_vars
    /\ (FailedRunEnded /\ CanStillFire) ~> (spc = "job" \/ spc = "stopped")

\* C11 witness: a scheduled run ended by an Exception leaving run_pipeline and
\* the loop is polling again.
C11_Witness ==
    /\ FailedRunEnded
    /\ wlog.ended = "raised"
    /\ inflight = 0

Abs(n) == IF n < 0 THEN 0 - n ELSE n

CountStatus(h, st) == Cardinality({i \in 1..Len(h) : h[i].status = st})

\* C14 (overview statistics): over a non-empty loaded history the overview
\* reports total = number of records, successes = records with status
\* 'success', failures = records with status 'failed', successes + failures =
\* total, the rate successes/total to one decimal, and a failure count equal to
\* the number of records display_pipeline_errors selects from the same history.
C14_OverviewStatistics ==
    (report.overview.shown /\ history # <<>>) =>
        /\ report.overview.printed
        /\ report.overview.total_runs = Len(history)
        /\ report.overview.successful_runs = CountStatus(history, "success")
        /\ report.overview.failed_runs = CountStatus(history, "failed")
        /\ report.overview.successful_runs + report.overview.failed_runs = report.overview.total_runs
        /\ 2 * Abs(report.overview.success_rate * Len(history)
                   - 1000 * report.overview.successful_runs) <= Len(history)
        /\ report.errors.shown => report.errors.total_failed = report.overview.failed_runs

\* C14 witness: Scenario A, [success, failed, success] gives 66.7% and one
\* failed record, in the overview and in the errors report.
C14_Witness ==
    /\ [i \in 1..Len(history) |-> history[i].status] = <<"success", "failed", "success">>
    /\ report.overview.shown
    /\ report.overview.success_rate = 667
    /\ report.overview.failed_runs = 1
    /\ report.errors.shown
    /\ report.errors.total_failed = 1

\* the first entry of run['stages'] whose status is 'failed'
FirstFailedEntry(stages) ==
    stages[CHOOSE i \in FailedEntries(stages) : \A j \in FailedEntries(stages) : i <= j]

\* C15 (errors report): display_pipeline_errors reports every loaded record
\* whose status is 'failed', none omitted, and for each of them exactly one
\* failing stage, the first failed entry of its stages, with that entry's error
\* and the run's top-level error.
C15_ErrorsReport ==
    report.errors.shown =>
        LET failed == SelectSeq(history, LAMBDA r : r.status = "failed")
        IN /\ Len(report.errors.runs) = Len(failed)
           /\ \A i \in 1..Len(failed) :
                /\ report.errors.runs[i].run_id = failed[i].run_id
                /\ "error" \in failed[i].has
                /\ report.errors.runs[i].error = failed[i].error
                /\ FailedEntries(failed[i].stages) # {}
                /\ report.errors.runs[i].failed_stages =
                       <<[name |-> FirstFailedEntry(failed[i].stages).name,
                          error |-> FirstFailedEntry(failed[i].stages).error]>>

\* C18 (sequential data dependency): in every run the transformation reads the
\* raw file the same run's extraction wrote and the loading reads the CSV the
\* same run's transformation wrote, never the output of another run, also when
\* save_raw_data failed and returned no path.
C18_StageReadsOwnRunsOutput ==
    /\ raw_read.run # 0 => raw_read.by = raw_read.run
    /\ csv_read.run # 0 => csv_read.by = csv_read.run

\* C23 (run_id uniqueness, append-only store): a run_pipeline invocation gets a
\* run_id under which the store holds no unit yet, and no step overwrites or
\* removes a record the store holds.
C23_UniqueIdsAppendOnly ==
    [][/\ (opc = "entered" /\ opc' = "extraction") => active[StatsFile(run_id')].kind = "none"
       /\ \A k \in Keys : Loads(active, k) =>
             /\ Loads(active', k)
             /\ JsonLoad(active'[k]).data = JsonLoad(active[k]).data]_vars

\* C25 (no partial unit): after run_pipeline returns, the store holds for its
\* run_id a complete, parseable record or no unit at all.
C25_NoPartialUnit ==
    opc = "returned" =>
        \/ active[StatsFile(run_id)].kind = "none"
        \/ Loads(active, StatsFile(run_id))

\* C27 (returned outcome matches persisted outcome): no Exception leaves
\* run_pipeline, and the result it returns has a status in {success, failed}
\* equal to the status of result['stats'] and of the persisted record, and the
\* run_id of the persisted record.
C27_ReturnedMatchesPersisted ==
    /\ opc = "raised" => exc.kind = "KeyboardInterrupt"
    /\ opc = "returned" =>
          /\ result.status \in {"success", "failed"}
          /\ result.status = result.stats.status
          /\ Loads(active, StatsFile(result.run_id))
          /\ JsonLoad(active[StatsFile(result.run_id)]).data.status = result.status
          /\ JsonLoad(active[StatsFile(result.run_id)]).data.run_id = result.run_id

\* C29 (quarantine never removes a valid record): with a run writing its record
\* beside a scan and a confirmed clean_corrupted_files, every unit in
\* logs/pipeline_runs/corrupted is unparseable and the record of every run
\* whose write completed is in the active set.
C29_QuarantineKeepsValidRecords ==
    /\ \A k \in Keys : holding[k].kind # "none" => ~Loads(holding, k)
    /\ (opc = "returned" /\ wlog.completed = 1) => Loads(active, StatsFile(run_id))

\* C28 (no leakage between runs of a reused orchestrator): a run starts from a
\* record that holds its own run_id and nothing of an earlier run (no stage
\* entry, no error, no end_time), so a run that fails at extraction has exactly
\* one stage entry; and a record a caller kept from an earlier run is never
\* changed by a later run.
C28_NoLeakageBetweenRuns ==
    /\ [](opc = "extraction" =>
             /\ run_stats.stages = <<>>
             /\ run_stats.run_id = run_id
             /\ run_stats.has \cap {"error", "end_time", "duration_seconds"} = {})
    /\ []((opc \in {"end_f", "open", "dump", "logged", "returned"} /\ Len(run_stats.stages) >= 1
             /\ run_stats.stages[1].status = "failed") => Len(run_stats.stages) = 1)
    /\ [][(earlier.obj # NoDict /\ earlier'.obj = earlier.obj) => earlier'.stats = earlier.stats]_vars

\* C28 witness: the scheduler's second run failed at extraction and returned a
\* record with one stage entry while the caller still holds the record of the
\* first run, successful with its four entries.
C28_Witness ==
    /\ caller = "sched"
    /\ runs = 2
    /\ opc = "returned"
    /\ result.status = "failed"
    /\ Len(result.stats.stages) = 1
    /\ earlier.obj # stats_obj
    /\ earlier.stats.status = "success"
    /\ Len(earlier.stats.stages) = 4

\* C30 (the two history readers agree): over the same store and with the same
\* limit, PipelineOrchestrator.get_pipeline_history returns the list of records
\* that is the first component of what monitor.get_pipeline_history returns, in
\* the same order, and neither call raises.
C30_ReadersAgree ==
    /\ orch_read.set => ~orch_read.raised
    /\ last_read.set => ~last_read.raised
    /\ (orch_read.set /\ last_read.set /\ orch_read.limit = last_read.limit) =>
          orch_read.history = last_read.history

\* C30 witness: both readers were called with the same limit on a store that
\* holds a unit that cannot be loaded next to a record.
C30_Witness ==
    /\ orch_read.set
    /\ last_read.set
    /\ orch_read.limit = last_read.limit
    /\ last_read.corrupted_files # <<>>
    /\ Len(orch_read.history) >= 1
    /\ \E k \in Keys : active[k].kind = "unreadable"

\* the records with run id rid that monitor.get_pipeline_history returns
ReadBack(rid) ==
    LET HasId(d) == "run_id" \in d.has /\ d.run_id = rid
    IN SelectSeq(get_pipeline_history(active, DisplayLimit).history, HasId)

C22_NeverMutatesStore ==
    /\ [][Glob(active') = Glob(active)]_vars
    /\ [](tool = "errors" =>
             report.errors = ErrorsReport(get_pipeline_history(active, ErrorsLimit).history))

\* C22 (amended): display_pipeline_errors changes neither directory and its
\* report is the one a repeated call gives; a step of display_pipeline_status
\* changes a unit of the active directory only when it acts on an answer that,
\* stripped and lower-cased, equals 'y', and then only units its scan listed
\* as corrupted, each moved as it is to corrupted/.
C22_MutatesOnlyOnConfirmation ==
    /\ [][tool' = "errors" => UNCHANGED <<active, holding>>]_vars
    /\ [](tool = "errors" =>
             report.errors = ErrorsReport(get_pipeline_history(active, ErrorsLimit).history))
    /\ [][\A k \in Keys : active'[k] # active[k] =>
             /\ tool = "status"
             /\ mpc = "answered"
             /\ Normalize(response) = <<"y">>
             /\ k \in Range(corrupted_files)
             /\ active'[k] = NoFile
             /\ holding'[k] = active[k]]_vars

\* C22 witness: display_pipeline_status moved a corrupted unit after the answer
\* " Y" while a record stayed in the active directory.
C22_Witness ==
    /\ tool = "status"
    /\ mpc = "idle"
    /\ response = <<" ", "Y">>
    /\ \E k \in Range(corrupted_files) : active[k].kind = "none" /\ holding[k].kind # "none"
    /\ \E j \in Keys : Loads(active, j)

\* the loading entry of the run's record, if any
LoadingEntries == {i \in 1..Len(run_stats.stages) : run_stats.stages[i].name = "loading"}

\* C26 (as claimed): a loading entry with status 'success' means every row of
\* the frame was appended to weather_fact and records_loaded is the frame's row
\* count; a failed insert in load_weather_facts gives a loading entry with
\* status 'failed' and a failed run.
C26_SuccessImpliesInserted ==
    \A i \in LoadingEntries :
        /\ run_stats.stages[i].status = "success" =>
              /\ facts.called
              /\ facts.appended = facts.rows
              /\ facts.records_loaded = facts.rows
        /\ (facts.called /\ facts.failed) =>
              /\ run_stats.stages[i].status = "failed"
              /\ run_stats.status # "success"

\* the city_ids of the frame
FrameIds == {frame[i].city_id : i \in 1..Len(frame)}

\* the first row of the frame for city_id c
FirstRowOf(c) == frame[CHOOSE i \in Kept(frame) : frame[i].city_id = c]

\* C24 (as claimed): after upsert_city_dimension the table holds, for every
\* city_id of the frame, one row with the frame's values (a missing timezone
\* stored as NULL), the rows of other city_ids are as they were, and a second
\* call with the same frame leaves the rows with the same values.
C24_IdempotentUpsert ==
    upsert_log.calls >= 1 =>
        /\ ~upsert_log.raised
        /\ \A c \in FrameIds :
              /\ city_dimension[c].present
              /\ city_dimension[c].city_name = FirstRowOf(c).city_name
              /\ city_dimension[c].timezone_offset_sec =
                     (IF FirstRowOf(c).timezone_offset_sec = "nan" THEN "None" ELSE "int")
        /\ \A c \in CityIds \ FrameIds : city_dimension[c] = upsert_log.before[c]
        /\ upsert_log.calls = 2 => city_dimension = upsert_log.first

====
